---- MODULE Spec2Model ----
(***************************************************************************)
(* Expense lifecycle and numbering of the expenses module                  *)
(* (models.py, views.py, forms.py).                                        *)
(*                                                                         *)
(* Money is held in cents (Decimal with 2 fraction digits), a tax rate in  *)
(* hundredths of a percent (21.00 % is 2100).  A date is the integer       *)
(* YYYYMMDD.  A string is the sequence of its character codes, so that     *)
(* startswith, the ordering of order_by and split/int are computed on the  *)
(* characters as the database and Python compute them.                     *)
(***************************************************************************)
EXTENDS Integers, Sequences, FiniteSets, TLC

VARIABLES
    expenses,   \* table expenses_expense: rows in insertion order, pk = index
    suppliers,  \* table expenses_supplier: pk -> row
    settings,   \* table expenses_settings: hub_id -> row (or not yet created)
    now,        \* timezone.now(), at the resolution of a day (YYYYMMDD)
    inflight,   \* requests in progress: what each has read and not yet written
    response    \* the last request, the row it named as it was before, and the answer

vars == <<expenses, suppliers, settings, now, inflight, response>>

---------------------------------------------------------------------------
(* Bounds of the model *)

FirstDay == 20261103

(* None: a null column / a missing foreign key *)
Null == 0

(* Tenants (hub_id) and employees (LocalUser) *)
Hubs == {1, 2}
Users == {1, 2}

---------------------------------------------------------------------------
(* Strings as sequences of character codes *)

ChDash == 45
ChZero == 48
StrEXP == <<69, 88, 80>>
StrGASTO == <<71, 65, 83, 84, 79>>

IsDigit(c) == c >= ChZero /\ c <= ChZero + 9

RECURSIVE DecDigits(_)
(* str(n) for n >= 0 *)
DecDigits(n) ==
    IF n < 10 THEN <<ChZero + n>>
    ELSE Append(DecDigits(n \div 10), ChZero + (n % 10))

RECURSIVE ZeroPad(_, _)
ZeroPad(s, width) ==
    IF Len(s) >= width THEN s ELSE ZeroPad(<<ChZero>> \o s, width)

PadWidth == 4

(* f"{new_num:04d}" *)
Format04d(n) == ZeroPad(DecDigits(n), PadWidth)

(* today.strftime('%Y%m%d') *)
Strftime(d) == DecDigits(d)

StartsWith(s, p) ==
    /\ Len(s) >= Len(p)
    /\ SubSeq(s, 1, Len(p)) = p

(* s < t in the code-point order a string column is sorted by *)
StrLess(s, t) ==
    \E k \in 1..(Len(t)) :
        /\ k <= Len(s) + 1
        /\ \A j \in 1..(k - 1) : s[j] = t[j]
        /\ (k = Len(s) + 1 \/ s[k] < t[k])

(* s.split('-')[-1] *)
LastField(s) ==
    LET dashes == {i \in 1..Len(s) : s[i] = ChDash}
        from == IF dashes = {} THEN 1
                ELSE (CHOOSE i \in dashes : \A j \in dashes : j <= i) + 1
    IN  SubSeq(s, from, Len(s))

RECURSIVE DigitsValue(_)
DigitsValue(s) ==
    IF s = <<>> THEN 0
    ELSE 10 * DigitsValue(SubSeq(s, 1, Len(s) - 1)) + (s[Len(s)] - ChZero)

(* int(s) raises ValueError unless s is a non-empty run of digits *)
IntParses(s) == s # <<>> /\ \A i \in 1..Len(s) : IsDigit(s[i])

---------------------------------------------------------------------------
(* Decimal arithmetic *)

(* (n / d).quantize(Decimal('0.01')) under the default context: ROUND_HALF_EVEN.
   n / d is the exact value in cents, n >= 0, d > 0. *)
Quantize(n, d) ==
    LET q == n \div d
        r == n % d
    IN  IF 2 * r < d THEN q
        ELSE IF 2 * r > d THEN q + 1
        ELSE IF q % 2 = 0 THEN q ELSE q + 1

RateScale == 10000

(* amount * tax_rate / Decimal('100'), in cents, quantized *)
TaxOf(amount, tax_rate) == Quantize(amount * tax_rate, RateScale)

---------------------------------------------------------------------------
(* Rows *)

Statuses == {"draft", "pending", "approved", "paid", "rejected"}

(* ExpenseSettings field defaults; records counts the tenant's rows of the
   table, 0 until get_or_create inserts one *)
DefaultSettings ==
    [records |-> 0,
     require_approval |-> FALSE,
     approval_threshold |-> 0,
     default_tax_rate |-> 2100,
     auto_numbering |-> TRUE,
     number_prefix |-> StrEXP]

(* Supplier field defaults *)
NewSupplier(hub) ==
    [hub_id |-> hub,
     is_active |-> TRUE,
     total_spent |-> 0,
     last_purchase_date |-> Null,
     is_deleted |-> FALSE]

(* An Expense instance built from ExpenseForm's cleaned data, before its first save *)
NewExpense(hub, form) ==
    [hub_id |-> hub,
     expense_number |-> <<>>,
     amount |-> form.amount,
     tax_rate |-> form.tax_rate,
     tax_amount |-> 0,
     total_amount |-> 0,
     expense_date |-> form.expense_date,
     status |-> form.status,
     supplier |-> form.supplier,
     approved_by |-> Null,
     approved_at |-> Null,
     paid_at |-> Null,
     is_deleted |-> FALSE]

(* HubBaseModel.delete(): the row is kept and marked deleted *)
SoftDelete(row) == [row EXCEPT !.is_deleted = TRUE]

(* get_object_or_404(Expense, id=pk, hub_id=hub, is_deleted=False) finds a row *)
Found(hub, pk) ==
    /\ pk \in 1..Len(expenses)
    /\ expenses[pk].hub_id = hub
    /\ ~expenses[pk].is_deleted

Respond(op, hub, pk, code, ok) ==
    [op |-> op,
     hub |-> hub,
     pk |-> pk,
     status_code |-> code,
     success |-> ok,
     was |-> IF pk \in 1..Len(expenses) THEN expenses[pk].status ELSE "none"]

---------------------------------------------------------------------------
(* ExpenseSettings.get_settings: get_or_create(hub_id=hub) *)

(* GetSettings as objects.create(hub_id=hub): a row of defaults is inserted and
   returned on every call *)
GetSettingsCreating(table, hub) ==
    [table EXCEPT ![hub] = [DefaultSettings EXCEPT !.records = table[hub].records + 1]]

GetSettings(table, hub) ==
    IF table[hub].records = 0
    THEN [table EXCEPT ![hub].records = 1]
    ELSE table

---------------------------------------------------------------------------
(* Expense.generate_expense_number *)

(* NumberedLike over the rows of every tenant *)
NumberedLikeAnyHub(rows, hub, full_prefix) ==
    {i \in 1..Len(rows) : StartsWith(rows[i].expense_number, full_prefix)}

(* all_objects.filter(hub_id=hub, expense_number__startswith=full_prefix) *)
NumberedLike(rows, hub, full_prefix) ==
    {i \in 1..Len(rows) :
        /\ rows[i].hub_id = hub
        /\ StartsWith(rows[i].expense_number, full_prefix)}

(* .order_by('-expense_number').first(): a row no other row sorts after *)
LastExpense(rows, found) ==
    CHOOSE i \in found :
        \A j \in found : ~StrLess(rows[i].expense_number, rows[j].expense_number)

FullPrefix(prefix, today) == prefix \o <<ChDash>> \o Strftime(today)

GenerateExpenseNumber(rows, hub, prefix, today) ==
    LET full_prefix == FullPrefix(prefix, today)
        found == NumberedLike(rows, hub, full_prefix)
        new_num ==
            IF found # {}
            THEN LET last == LastField(rows[LastExpense(rows, found)].expense_number)
                 IN  IF IntParses(last) THEN DigitsValue(last) + 1 ELSE 1
            ELSE 1
    IN  full_prefix \o <<ChDash>> \o Format04d(new_num)

---------------------------------------------------------------------------
(* Expense.save *)

(* lines 326-332: recalculated only when self.amount is truthy *)
ComputeAmounts(e) ==
    IF e.amount # 0
    THEN LET tax == TaxOf(e.amount, e.tax_rate)
         IN  [e EXCEPT !.tax_amount = tax, !.total_amount = e.amount + tax]
    ELSE e

(* NumberPrefix with auto_numbering not consulted *)
NumberPrefixIgnoringSwitch(config) ==
    IF config.number_prefix # <<>> THEN config.number_prefix ELSE StrEXP

(* lines 336-342 *)
NumberPrefix(config) ==
    IF config.auto_numbering
    THEN (IF config.number_prefix # <<>> THEN config.number_prefix ELSE StrEXP)
    ELSE StrEXP

(* AssignNumber that generates a number on every save *)
AssignNumberAlways(e, rows, table, today) ==
    [e EXCEPT !.expense_number =
        GenerateExpenseNumber(rows, e.hub_id,
                              NumberPrefix(GetSettings(table, e.hub_id)[e.hub_id]),
                              today)]

(* lines 335-345: a number is generated only while the instance has none *)
AssignNumber(e, rows, table, today) ==
    IF e.expense_number = <<>>
    THEN [e EXCEPT !.expense_number =
            GenerateExpenseNumber(rows, e.hub_id,
                                  NumberPrefix(GetSettings(table, e.hub_id)[e.hub_id]),
                                  today)]
    ELSE e

(* AssignNumberLookupFailed that gives up numbering when the lookup raises *)
AssignNumberLookupFailedUnnumbered(e, rows, today) == e

(* lines 335-345 when get_settings raises: the except branch passes and the
   number is generated with the prefix of line 336 *)
AssignNumberLookupFailed(e, rows, today) ==
    IF e.expense_number = <<>>
    THEN [e EXCEPT !.expense_number = GenerateExpenseNumber(rows, e.hub_id, StrEXP, today)]
    ELSE e

(* the instance as super().save() receives it *)
Prepared(e, rows, table, today) == AssignNumber(ComputeAmounts(e), rows, table, today)

---------------------------------------------------------------------------
(* Supplier.update_totals *)

(* PaidExpenses without the is_deleted filter *)
PaidExpensesWithDeleted(rows, s) ==
    {i \in 1..Len(rows) :
        /\ rows[i].supplier = s
        /\ rows[i].status = "paid"}

(* self.expenses.filter(is_deleted=False, status='paid') *)
PaidExpenses(rows, s) ==
    {i \in 1..Len(rows) :
        /\ rows[i].supplier = s
        /\ ~rows[i].is_deleted
        /\ rows[i].status = "paid"}

RECURSIVE SumTotal(_, _)
(* Sum('total_amount') over the rows idx; None over no row *)
SumTotal(rows, idx) ==
    IF idx = {} THEN 0
    ELSE LET i == CHOOSE k \in idx : TRUE
         IN  rows[i].total_amount + SumTotal(rows, idx \ {i})

(* Max('expense_date') over the rows idx; None over no row *)
MaxDate(rows, idx) ==
    IF idx = {} THEN Null
    ELSE LET i == CHOOSE k \in idx : \A j \in idx : rows[j].expense_date <= rows[k].expense_date
         IN  rows[i].expense_date

(* UpdateTotals that writes only what the aggregate returned, keeping the
   cached values when no paid expense is left *)
UpdateTotalsUnlessEmpty(sup, rows, s) ==
    LET paid == PaidExpenses(rows, s)
    IN  IF paid = {} THEN sup
        ELSE [sup EXCEPT ![s].total_spent = SumTotal(rows, paid),
                         ![s].last_purchase_date = MaxDate(rows, paid)]

UpdateTotals(sup, rows, s) ==
    LET paid == PaidExpenses(rows, s)
    IN  [sup EXCEPT ![s].total_spent = SumTotal(rows, paid),
                    ![s].last_purchase_date = MaxDate(rows, paid)]

---------------------------------------------------------------------------
(* Queries of the read-only views *)

(* ExpenseList without the is_deleted filter *)
ExpenseListWithDeleted(rows, hub) ==
    {i \in 1..Len(rows) : rows[i].hub_id = hub}

(* views.expense_list: Expense.objects.filter(hub_id=hub, is_deleted=False) *)
ExpenseList(rows, hub) ==
    {i \in 1..Len(rows) : rows[i].hub_id = hub /\ ~rows[i].is_deleted}

(* views.dashboard: today.replace(day=1) *)
MonthStart(today) == (today \div 100) * 100 + 1

(* views.dashboard: base_qs.filter(expense_date__gte=month_start) *)
MonthExpenses(rows, hub, today) ==
    {i \in 1..Len(rows) :
        /\ rows[i].hub_id = hub
        /\ ~rows[i].is_deleted
        /\ rows[i].expense_date >= MonthStart(today)}

(* views.dashboard: total_this_month *)
TotalThisMonth(rows, hub, today) == SumTotal(rows, MonthExpenses(rows, hub, today))

(* views.reports: base_qs, from the start date of the period asked for *)
ReportExpenses(rows, hub, start_date) ==
    {i \in 1..Len(rows) :
        /\ rows[i].hub_id = hub
        /\ ~rows[i].is_deleted
        /\ rows[i].expense_date >= start_date}

(* views.reports: total_expenses *)
TotalExpenses(rows, hub, start_date) == SumTotal(rows, ReportExpenses(rows, hub, start_date))

---------------------------------------------------------------------------
(* Requests *)

(* SupplierFormFields with the cached totals exposed to the form *)
SupplierFormFieldsWithTotals == {"is_active", "total_spent", "last_purchase_date"}

(* SupplierForm.Meta.fields, of the fields a supplier row has here *)
SupplierFormFields == {"is_active"}

(* SupplierForm.save: the posted values of the form's fields are set on the
   instance, any other posted key is ignored *)
SupplierFormSave(instance, data) ==
    [k \in DOMAIN instance |->
        IF k \in SupplierFormFields /\ k \in DOMAIN data THEN data[k] ELSE instance[k]]

(* get_object_or_404(Supplier, id=pk, hub_id=hub, is_deleted=False) finds a row *)
FoundSupplier(hub, pk) ==
    /\ pk \in 1..Len(suppliers)
    /\ suppliers[pk].hub_id = hub
    /\ ~suppliers[pk].is_deleted

(* views.supplier_create, POST with a valid SupplierForm *)
SupplierCreate(hub, data) ==
    /\ suppliers' = Append(suppliers, SupplierFormSave(NewSupplier(hub), data))
    /\ response' = Respond("supplier_create", hub, Null, 200, TRUE)
    /\ UNCHANGED <<expenses, settings, now, inflight>>

(* views.supplier_edit, POST with a valid SupplierForm bound to the instance *)
SupplierEdit(hub, pk, data) ==
    IF ~FoundSupplier(hub, pk)
    THEN /\ response' = [Respond("supplier_edit", hub, Null, 404, FALSE) EXCEPT !.pk = pk]
         /\ UNCHANGED <<expenses, suppliers, settings, now, inflight>>
    ELSE /\ suppliers' = [suppliers EXCEPT ![pk] = SupplierFormSave(suppliers[pk], data)]
         /\ response' = [Respond("supplier_edit", hub, Null, 200, TRUE) EXCEPT !.pk = pk]
         /\ UNCHANGED <<expenses, settings, now, inflight>>

(* views.supplier_delete; Http404 is raised inside the try and answered by its
   except branch with status 400 *)
SupplierDelete(hub, pk) ==
    IF ~FoundSupplier(hub, pk)
    THEN /\ response' = [Respond("supplier_delete", hub, Null, 400, FALSE) EXCEPT !.pk = pk]
         /\ UNCHANGED <<expenses, suppliers, settings, now, inflight>>
    ELSE /\ suppliers' = [suppliers EXCEPT ![pk] = SoftDelete(suppliers[pk])]
         /\ response' = [Respond("supplier_delete", hub, Null, 200, TRUE) EXCEPT !.pk = pk]
         /\ UNCHANGED <<expenses, settings, now, inflight>>

(* views.expense_create, POST with a valid ExpenseForm *)
ExpenseCreate(hub, form) ==
    LET config == GetSettings(settings, hub)
        instance == NewExpense(hub, form)
        rated == IF instance.tax_rate = 0
                 THEN [instance EXCEPT !.tax_rate = config[hub].default_tax_rate]
                 ELSE instance
    IN  /\ settings' = config
        /\ expenses' = Append(expenses, Prepared(rated, expenses, config, now))
        /\ response' = Respond("create", hub, Len(expenses) + 1, 200, TRUE)
        /\ UNCHANGED <<suppliers, now, inflight>>

(* Expense.status: default='draft' *)
StatusDefault == "draft"

(* Expense.objects.create(hub_id=, amount=, tax_rate=, expense_date=), as the
   tests call it: the fields not given take the defaults of their
   declaration, and Expense.save looks the settings up for the prefix *)
ObjectsCreate(hub, kwargs) ==
    LET instance == NewExpense(hub, [amount |-> kwargs.amount,
                                     tax_rate |-> kwargs.tax_rate,
                                     expense_date |-> kwargs.expense_date,
                                     status |-> StatusDefault,
                                     supplier |-> Null])
    IN  /\ settings' = GetSettings(settings, hub)
        /\ expenses' = Append(expenses, Prepared(instance, expenses, settings, now))
        /\ response' = Respond("objects_create", hub, Len(expenses) + 1, Null, TRUE)
        /\ UNCHANGED <<suppliers, now, inflight>>

(* Expense.objects.create while the settings lookup of Expense.save raises (the
   settings table cannot be read or written): no settings row is created *)
ObjectsCreateLookupFailing(hub, kwargs) ==
    LET instance == NewExpense(hub, [amount |-> kwargs.amount,
                                     tax_rate |-> kwargs.tax_rate,
                                     expense_date |-> kwargs.expense_date,
                                     status |-> StatusDefault,
                                     supplier |-> Null])
    IN  /\ expenses' = Append(expenses,
                              AssignNumberLookupFailed(ComputeAmounts(instance), expenses, now))
        /\ response' = Respond("objects_create", hub, Len(expenses) + 1, Null, TRUE)
        /\ UNCHANGED <<suppliers, settings, now, inflight>>

(* views.expense_detail *)
ExpenseDetail(hub, pk) ==
    /\ response' = IF Found(hub, pk) THEN Respond("detail", hub, pk, 200, TRUE)
                   ELSE Respond("detail", hub, pk, 404, FALSE)
    /\ UNCHANGED <<expenses, suppliers, settings, now, inflight>>

(* views.expense_edit, POST with a valid ExpenseForm bound to the instance *)
ExpenseEdit(hub, pk, form) ==
    IF ~Found(hub, pk)
    THEN /\ response' = Respond("edit", hub, pk, 404, FALSE)
         /\ UNCHANGED <<expenses, suppliers, settings, now, inflight>>
    ELSE LET instance == [expenses[pk] EXCEPT
                              !.amount = form.amount,
                              !.tax_rate = form.tax_rate,
                              !.expense_date = form.expense_date,
                              !.status = form.status,
                              !.supplier = form.supplier]
         IN  /\ expenses' = [expenses EXCEPT ![pk] = Prepared(instance, expenses, settings, now)]
             /\ response' = Respond("edit", hub, pk, 200, TRUE)
             /\ UNCHANGED <<suppliers, settings, now, inflight>>

(* ExpenseDelete that recomputes the totals of the expense's supplier *)
ExpenseDeleteRecomputing(hub, pk) ==
    IF ~Found(hub, pk)
    THEN /\ response' = Respond("delete", hub, pk, 404, FALSE)
         /\ UNCHANGED <<expenses, suppliers, settings, now, inflight>>
    ELSE LET rows == [expenses EXCEPT ![pk] = SoftDelete(expenses[pk])]
             s == expenses[pk].supplier
         IN  /\ expenses' = rows
             /\ suppliers' = IF s # Null THEN UpdateTotals(suppliers, rows, s) ELSE suppliers
             /\ response' = Respond("delete", hub, pk, 200, TRUE)
             /\ UNCHANGED <<settings, now, inflight>>

(* views.expense_delete *)
ExpenseDelete(hub, pk) ==
    IF ~Found(hub, pk)
    THEN /\ response' = Respond("delete", hub, pk, 404, FALSE)
         /\ UNCHANGED <<expenses, suppliers, settings, now, inflight>>
    ELSE /\ expenses' = [expenses EXCEPT ![pk] = SoftDelete(expenses[pk])]
         /\ response' = Respond("delete", hub, pk, 200, TRUE)
         /\ UNCHANGED <<suppliers, settings, now, inflight>>

(* Approvable with rejected expenses let through *)
ApprovableOrRejected == {"draft", "pending", "rejected"}

(* views.expense_approve line 292 *)
Approvable == {"draft", "pending"}

(* views.expense_approve; Http404 is raised inside the try and answered by its
   except branch with status 400 *)
ExpenseApprove(hub, pk, employee) ==
    IF ~Found(hub, pk)
    THEN /\ response' = Respond("approve", hub, pk, 400, FALSE)
         /\ UNCHANGED <<expenses, suppliers, settings, now, inflight>>
    ELSE IF expenses[pk].status \notin Approvable
    THEN /\ response' = Respond("approve", hub, pk, 200, FALSE)
         /\ UNCHANGED <<expenses, suppliers, settings, now, inflight>>
    ELSE /\ expenses' = [expenses EXCEPT ![pk].status = "approved",
                                         ![pk].approved_by = employee,
                                         ![pk].approved_at = now]
         /\ response' = Respond("approve", hub, pk, 200, TRUE)
         /\ UNCHANGED <<suppliers, settings, now, inflight>>

(* NeedsApproval with a total equal to the threshold blocked too *)
NeedsApprovalFromThreshold(e, config) ==
    /\ config.require_approval
    /\ e.status \notin {"approved"}
    /\ (e.total_amount >= config.approval_threshold \/ config.approval_threshold = 0)

(* NeedsApproval with require_approval not consulted *)
NeedsApprovalAlways(e, config) ==
    /\ e.status \notin {"approved"}
    /\ (e.total_amount > config.approval_threshold \/ config.approval_threshold = 0)

(* NeedsApproval with a rejected expense let through like an approved one *)
NeedsApprovalUnlessRejected(e, config) ==
    /\ config.require_approval
    /\ e.status \notin {"approved", "rejected"}
    /\ (e.total_amount > config.approval_threshold \/ config.approval_threshold = 0)

(* NeedsApproval with the threshold 0 read as "no total is too small to pay
   unapproved": only a total above the threshold is blocked *)
NeedsApprovalAboveThreshold(e, config) ==
    /\ config.require_approval
    /\ e.status \notin {"approved"}
    /\ e.total_amount > config.approval_threshold

(* views.expense_mark_paid lines 319-321: the request is declined *)
NeedsApproval(e, config) ==
    /\ config.require_approval
    /\ e.status \notin {"approved"}
    /\ (e.total_amount > config.approval_threshold \/ config.approval_threshold = 0)

(* Paid with approved_at stamped along with paid_at *)
PaidStampingApproval(e, today) ==
    [e EXCEPT !.status = "paid", !.paid_at = today, !.approved_at = today]

(* views.expense_mark_paid lines 327-329: save(update_fields=['status', 'paid_at', ...]) *)
Paid(e, today) == [e EXCEPT !.status = "paid", !.paid_at = today]

(* ExpenseMarkPaid with status and paid_at saved before the approval gate is
   consulted *)
ExpenseMarkPaidSavingFirst(hub, pk) ==
    IF ~Found(hub, pk)
    THEN /\ response' = Respond("mark_paid", hub, pk, 400, FALSE)
         /\ UNCHANGED <<expenses, suppliers, settings, now, inflight>>
    ELSE LET config == GetSettings(settings, hub)
             rows == [expenses EXCEPT ![pk] = Paid(expenses[pk], now)]
             s == expenses[pk].supplier
         IN  IF NeedsApproval(expenses[pk], config[hub])
             THEN /\ settings' = config
                  /\ expenses' = rows
                  /\ response' = Respond("mark_paid", hub, pk, 200, FALSE)
                  /\ UNCHANGED <<suppliers, now, inflight>>
             ELSE /\ settings' = config
                  /\ expenses' = rows
                  /\ suppliers' = IF s # Null THEN UpdateTotals(suppliers, rows, s)
                                  ELSE suppliers
                  /\ response' = Respond("mark_paid", hub, pk, 200, TRUE)
                  /\ UNCHANGED <<now, inflight>>

(* views.expense_mark_paid *)
ExpenseMarkPaid(hub, pk) ==
    IF ~Found(hub, pk)
    THEN /\ response' = Respond("mark_paid", hub, pk, 400, FALSE)
         /\ UNCHANGED <<expenses, suppliers, settings, now, inflight>>
    ELSE LET config == GetSettings(settings, hub)
             rows == [expenses EXCEPT ![pk] = Paid(expenses[pk], now)]
             s == expenses[pk].supplier
         IN  IF NeedsApproval(expenses[pk], config[hub])
             THEN /\ settings' = config
                  /\ response' = Respond("mark_paid", hub, pk, 200, FALSE)
                  /\ UNCHANGED <<expenses, suppliers, now, inflight>>
             ELSE /\ settings' = config
                  /\ expenses' = rows
                  /\ suppliers' = IF s # Null THEN UpdateTotals(suppliers, rows, s)
                                  ELSE suppliers
                  /\ response' = Respond("mark_paid", hub, pk, 200, TRUE)
                  /\ UNCHANGED <<now, inflight>>

(* views.expense_mark_paid when supplier.update_totals() raises (the aggregate
   query or the supplier's save fails in the database): expense.save() of line
   329 has been committed on its own, the except branch of line 336 answers
   status 400 *)
ExpenseMarkPaidFailing(hub, pk) ==
    /\ Found(hub, pk)
    /\ ~NeedsApproval(expenses[pk], GetSettings(settings, hub)[hub])
    /\ expenses[pk].supplier # Null
    /\ settings' = GetSettings(settings, hub)
    /\ expenses' = [expenses EXCEPT ![pk] = Paid(expenses[pk], now)]
    /\ response' = Respond("mark_paid", hub, pk, 400, FALSE)
    /\ UNCHANGED <<suppliers, now, inflight>>

(* views.settings_view *)
SettingsView(hub) ==
    /\ settings' = GetSettings(settings, hub)
    /\ response' = Respond("settings_view", hub, Null, 200, TRUE)
    /\ UNCHANGED <<expenses, suppliers, now, inflight>>

(* views.settings_save *)
SettingsSave(hub, data) ==
    /\ settings' = [GetSettings(settings, hub) EXCEPT
                       ![hub].require_approval = data.require_approval,
                       ![hub].approval_threshold = data.approval_threshold,
                       ![hub].default_tax_rate = data.default_tax_rate,
                       ![hub].auto_numbering = data.auto_numbering,
                       ![hub].number_prefix = data.number_prefix]
    /\ response' = Respond("settings_save", hub, Null, 200, TRUE)
    /\ UNCHANGED <<expenses, suppliers, now, inflight>>

(* the clock: midnight passes *)
Tick ==
    /\ now' = now + 1
    /\ UNCHANGED <<expenses, suppliers, settings, inflight, response>>

---------------------------------------------------------------------------
(* The state after the migrations: empty tables, no request answered yet *)

NoResponse ==
    [op |-> "none", hub |-> Null, pk |-> Null, status_code |-> Null, success |-> FALSE,
     was |-> "none"]

Init ==
    /\ expenses = <<>>
    /\ suppliers = <<>>
    /\ settings = [h \in Hubs |-> DefaultSettings]
    /\ now = FirstDay
    /\ inflight = <<>>
    /\ response = NoResponse

(* ModelChoiceField: the supplier posted is a row of the table, or left empty *)
ValidForm(f) == f.supplier \in {Null} \cup (1..Len(suppliers))

(* Cleaned data of ExpenseForm *)
Forms(amounts, rates, dates, statuses, sups) ==
    [amount : amounts, tax_rate : rates, expense_date : dates,
     status : statuses, supplier : sups]

(* POST data of the supplier form: the form's field, and values posted under
   the names of the cached totals *)
SupplierPosts(actives, totals, dates) ==
    [is_active : actives, total_spent : totals, last_purchase_date : dates]

(* a supplier form filled in as the page renders it *)
PlainSupplierPosts == SupplierPosts({TRUE}, {0}, {Null})

(* JSON body of settings_save *)
Configs(approvals, thresholds, prefixes) ==
    [require_approval : approvals, approval_threshold : thresholds,
     default_tax_rate : {DefaultSettings.default_tax_rate},
     auto_numbering : {TRUE}, number_prefix : prefixes]

---------------------------------------------------------------------------
(* Amounts and tax: one tenant creates, edits, approves and pays expenses
   whose net amounts and rates include the zero amount and amounts whose tax
   needs rounding *)

MoneyMaxExpenses == 1
MoneyAmounts == {0, 50, 10000}
MoneyRates == {0, 100, 2100}
MoneyForms == Forms(MoneyAmounts, MoneyRates, {FirstDay}, {"draft"}, {Null})
MoneyPks == 1..MoneyMaxExpenses

NextMoney ==
    \/ \E f \in MoneyForms : Len(expenses) < MoneyMaxExpenses /\ ExpenseCreate(1, f)
    \/ \E pk \in MoneyPks, f \in MoneyForms : ExpenseEdit(1, pk, f)
    \/ \E pk \in MoneyPks, u \in Users : ExpenseApprove(1, pk, u)
    \/ \E pk \in MoneyPks : ExpenseMarkPaid(1, pk)

SpecMoney == Init /\ [][NextMoney]_vars

(* C1: every stored expense has tax_amount = round(amount * tax_rate / 100, 2)
   and total_amount = round(amount + tax_amount, 2), after any sequence of
   create, edit, approve and mark_paid requests.  round is Python's round on a
   Decimal, which rounds as quantize does. *)
C1_AmountsDerived ==
    \A i \in 1..Len(expenses) :
        /\ expenses[i].tax_amount = TaxOf(expenses[i].amount, expenses[i].tax_rate)
        /\ expenses[i].total_amount = expenses[i].amount + expenses[i].tax_amount

---------------------------------------------------------------------------
(* Numbering: expenses are created one after another, over two tenants, two
   prefixes and a change of day.  The day's table is empty at first, or holds
   the row that sorts last after Backlog earlier creations of tenant 1 (the
   rows 0001 .. Backlog - 1 sort before it and the lookup never returns them). *)

Backlog == 9999
NumberMaxExpenses == 3
NumberDays == 2
NumberForm ==
    [amount |-> 10000, tax_rate |-> 2100, expense_date |-> FirstDay,
     status |-> "draft", supplier |-> Null]
NumberConfigs == Configs({FALSE}, {0}, {StrEXP, StrGASTO})
NumberPks == 1..NumberMaxExpenses

BacklogRow ==
    [ComputeAmounts(NewExpense(1, NumberForm)) EXCEPT
        !.expense_number = FullPrefix(StrEXP, FirstDay) \o <<ChDash>> \o Format04d(Backlog)]

InitNumber ==
    /\ expenses \in {<<>>, <<BacklogRow>>}
    /\ suppliers = <<>>
    /\ settings = IF expenses = <<>> THEN [h \in Hubs |-> DefaultSettings]
                  ELSE GetSettings([h \in Hubs |-> DefaultSettings], 1)
    /\ now = FirstDay
    /\ inflight = <<>>
    /\ response = NoResponse

NextNumber ==
    \/ \E h \in Hubs : Len(expenses) < NumberMaxExpenses /\ ExpenseCreate(h, NumberForm)
    \/ \E h \in Hubs, pk \in NumberPks : ExpenseDelete(h, pk)
    \/ \E h \in Hubs, d \in NumberConfigs : SettingsSave(h, d)
    \/ now + 1 < FirstDay + NumberDays /\ Tick

SpecNumber == InitNumber /\ [][NextNumber]_vars

(* "{prefix}-{YYYYMMDD}" of a number, and its sequence part *)
KeyOf(number) == SubSeq(number, 1, Len(number) - Len(LastField(number)) - 1)
SuffixOf(number) == DigitsValue(LastField(number))

(* The rows of tenant hub whose number has the key of row i, created before row i *)
EarlierOfKey(rows, i) ==
    {j \in 1..(i - 1) :
        /\ rows[j].hub_id = rows[i].hub_id
        /\ KeyOf(rows[j].expense_number) = KeyOf(rows[i].expense_number)}

(* C2: an expense created after others of its tenant, day and prefix gets the
   suffix of the one created last before it plus 1, and the first one gets 1. *)
C2_SuffixesIncreaseByOne ==
    [][Len(expenses') = Len(expenses) + 1 =>
        LET i == Len(expenses')
            earlier == EarlierOfKey(expenses', i)
            prev == CHOOSE j \in earlier : \A k \in earlier : k <= j
        IN  SuffixOf(expenses'[i].expense_number) =
                IF earlier = {} THEN 1
                ELSE SuffixOf(expenses'[prev].expense_number) + 1]_vars

(* C28: the number of a soft-deleted expense is never given again: a new
   expense's number differs from every soft-deleted number of its tenant; when
   the expense with the highest suffix of its tenant, day and prefix is
   soft-deleted, the new one gets that suffix plus 1; and no live expense has
   the number of a soft-deleted expense of its tenant. *)
C28_DeletedNumbersNotReused ==
    [][/\ Len(expenses') = Len(expenses) + 1 =>
            LET i == Len(expenses')
                earlier == EarlierOfKey(expenses', i)
                top == CHOOSE j \in earlier :
                          \A k \in earlier : SuffixOf(expenses[k].expense_number)
                                                <= SuffixOf(expenses[j].expense_number)
            IN  /\ \A j \in 1..Len(expenses) :
                      (expenses[j].hub_id = expenses'[i].hub_id /\ expenses[j].is_deleted)
                          => expenses'[i].expense_number # expenses[j].expense_number
                /\ (earlier # {} /\ expenses[top].is_deleted) =>
                      SuffixOf(expenses'[i].expense_number)
                          = SuffixOf(expenses[top].expense_number) + 1
       /\ \A i, j \in 1..Len(expenses') :
            (/\ expenses'[i].hub_id = expenses'[j].hub_id
             /\ ~expenses'[i].is_deleted
             /\ expenses'[j].is_deleted)
                => expenses'[i].expense_number # expenses'[j].expense_number]_vars

(* C4: once a number with suffix 9999 or more exists, every expense created
   later for that tenant, day and prefix has a higher suffix: the sequence
   grows past four digits without repeating a number. *)
C4_GrowsPastPadding ==
    \A j \in 1..Len(expenses) :
        \A i \in EarlierOfKey(expenses, j) :
            SuffixOf(expenses[i].expense_number) >= 9999
                => SuffixOf(expenses[j].expense_number) > SuffixOf(expenses[i].expense_number)

---------------------------------------------------------------------------
(* Concurrent creation: expense_create requests of several workers overlap.
   Expense.save reads the last number (generate_expense_number) and inserts
   the row (super().save()) as two steps, with no lock and no unique
   constraint on expense_number between them. *)

RaceMaxExpenses == 3
RaceForms == Forms({10000, 20000}, {2100}, {FirstDay}, {"draft"}, {Null})

(* expense_create up to models.py line 345: the instance holds its number *)
SaveBegin(hub, form) ==
    LET config == GetSettings(settings, hub)
        instance == NewExpense(hub, form)
        rated == IF instance.tax_rate = 0
                 THEN [instance EXCEPT !.tax_rate = config[hub].default_tax_rate]
                 ELSE instance
    IN  /\ settings' = config
        /\ inflight' = Append(inflight, Prepared(rated, expenses, config, now))
        /\ UNCHANGED <<expenses, suppliers, now, response>>

(* models.py line 347: super().save() inserts the row; the view responds *)
SaveInsert(k) ==
    /\ k \in 1..Len(inflight)
    /\ expenses' = Append(expenses, inflight[k])
    /\ inflight' = SubSeq(inflight, 1, k - 1) \o SubSeq(inflight, k + 1, Len(inflight))
    /\ response' = Respond("create", inflight[k].hub_id, Len(expenses) + 1, 200, TRUE)
    /\ UNCHANGED <<suppliers, settings, now>>

NextRace ==
    \/ \E h \in Hubs, f \in RaceForms :
          Len(expenses) + Len(inflight) < RaceMaxExpenses /\ SaveBegin(h, f)
    \/ \E k \in 1..RaceMaxExpenses : SaveInsert(k)

SpecRace == Init /\ [][NextRace]_vars

(* C3: creations for one tenant, day and prefix that overlap never store the
   same expense_number twice. *)
C3_ConcurrentNumbersDistinct ==
    \A i, j \in 1..Len(expenses) :
        (i # j /\ expenses[i].hub_id = expenses[j].hub_id)
            => expenses[i].expense_number # expenses[j].expense_number

---------------------------------------------------------------------------
(* Approval and payment: one tenant's expenses are created in any status,
   approved and marked paid under every approval setting, with totals below,
   at and above the threshold and the zero total. *)

FlowMaxExpenses == 1
FlowForms == Forms({0, 10000, 20000}, {2100}, {FirstDay}, Statuses, {Null})
FlowEdits == Forms({10000}, {2100}, {FirstDay}, Statuses, {Null})
FlowConfigs == Configs(BOOLEAN, {0, 12100, 30000}, {StrEXP})
FlowPks == 1..FlowMaxExpenses

NextFlow ==
    \/ \E f \in FlowForms : Len(expenses) < FlowMaxExpenses /\ ExpenseCreate(1, f)
    \/ \E pk \in FlowPks, f \in FlowEdits : ExpenseEdit(1, pk, f)
    \/ \E pk \in FlowPks, u \in Users : ExpenseApprove(1, pk, u)
    \/ \E pk \in FlowPks : ExpenseMarkPaid(1, pk)
    \/ \E d \in FlowConfigs : SettingsSave(1, d)

SpecFlow == Init /\ [][NextFlow]_vars

(* C5: approve on an existing expense succeeds exactly from draft or pending,
   and then stores status approved, approved_by the acting user and
   approved_at now; from approved, paid or rejected it is declined and
   status, approved_by and approved_at stay as they were. *)
C5_ApproveOnlyDraftOrPending ==
    [][\A h \in Hubs, pk \in FlowPks, u \in Users :
        (Found(h, pk) /\ ExpenseApprove(h, pk, u)) =>
            IF expenses[pk].status \in {"draft", "pending"}
            THEN /\ response'.success
                 /\ expenses'[pk].status = "approved"
                 /\ expenses'[pk].approved_by = u
                 /\ expenses'[pk].approved_at = now
            ELSE /\ ~response'.success
                 /\ expenses'[pk].status = expenses[pk].status
                 /\ expenses'[pk].approved_by = expenses[pk].approved_by
                 /\ expenses'[pk].approved_at = expenses[pk].approved_at]_vars

(* a pending expense has just been approved by employee 2 *)
C5_Witness ==
    /\ response.op = "approve"
    /\ response.success
    /\ response.was = "pending"
    /\ expenses[response.pk].status = "approved"
    /\ expenses[response.pk].approved_by = 2

(* C6: with require_approval on, mark_paid on an existing expense is declined
   exactly when its status is not approved and (total_amount exceeds the
   threshold or the threshold is 0); in every other case it succeeds. *)
C6_GateWhenApprovalRequired ==
    [][\A h \in Hubs, pk \in FlowPks :
        (Found(h, pk) /\ settings[h].require_approval /\ ExpenseMarkPaid(h, pk)) =>
            (response'.success <=>
                ~(/\ expenses[pk].status # "approved"
                  /\ (\/ expenses[pk].total_amount > settings[h].approval_threshold
                      \/ settings[h].approval_threshold = 0)))]_vars

(* a draft whose total equals the threshold has just been paid without approval *)
C6_Witness ==
    /\ response.op = "mark_paid"
    /\ response.success
    /\ response.was = "draft"
    /\ settings[response.hub].require_approval
    /\ settings[response.hub].approval_threshold > 0
    /\ expenses[response.pk].total_amount = settings[response.hub].approval_threshold
    /\ expenses[response.pk].status = "paid"

(* C7: with require_approval off, mark_paid on an existing expense succeeds
   from every status and for every threshold and total, and stores status paid. *)
C7_AlwaysPayableWithoutApproval ==
    [][\A h \in Hubs, pk \in FlowPks :
        (Found(h, pk) /\ ~settings[h].require_approval /\ ExpenseMarkPaid(h, pk)) =>
            (response'.success /\ expenses'[pk].status = "paid")]_vars

(* a rejected expense above the threshold has just been paid, approval not required *)
C7_Witness ==
    /\ response.op = "mark_paid"
    /\ response.success
    /\ response.was = "rejected"
    /\ ~settings[response.hub].require_approval
    /\ settings[response.hub].approval_threshold > 0
    /\ expenses[response.pk].total_amount > settings[response.hub].approval_threshold
    /\ expenses[response.pk].status = "paid"

(* C8 as the specification words it: with require_approval on, mark_paid on a draft, pending or
   rejected expense is declined for every threshold and total. *)
C8_DeclinedUnlessApproved ==
    [][\A h \in Hubs, pk \in FlowPks :
        (/\ Found(h, pk)
         /\ settings[h].require_approval
         /\ expenses[pk].status \in {"draft", "pending", "rejected"}
         /\ ExpenseMarkPaid(h, pk)) => ~response'.success]_vars

(* C8 as amended: with require_approval on, mark_paid on a draft, pending or
   rejected expense is declined whenever total_amount exceeds the threshold or
   the threshold is 0, and the expense keeps its status and paid_at. *)
C8_DeclinedAboveThreshold ==
    [][\A h \in Hubs, pk \in FlowPks :
        (/\ Found(h, pk)
         /\ settings[h].require_approval
         /\ expenses[pk].status \in {"draft", "pending", "rejected"}
         /\ (\/ expenses[pk].total_amount > settings[h].approval_threshold
             \/ settings[h].approval_threshold = 0)
         /\ ExpenseMarkPaid(h, pk)) =>
            /\ ~response'.success
            /\ expenses'[pk].status = expenses[pk].status
            /\ expenses'[pk].paid_at = expenses[pk].paid_at]_vars

(* a rejected expense above a positive threshold has just been declined *)
C8_Witness ==
    /\ response.op = "mark_paid"
    /\ ~response.success
    /\ response.status_code = 200
    /\ response.was = "rejected"
    /\ settings[response.hub].require_approval
    /\ settings[response.hub].approval_threshold > 0
    /\ expenses[response.pk].total_amount > settings[response.hub].approval_threshold
    /\ expenses[response.pk].status = "rejected"

---------------------------------------------------------------------------
(* Payment and supplier totals: one tenant's expenses, with and without a
   supplier, of two amounts and two expense dates, are created, edited into
   status paid with another amount and supplier, soft-deleted and marked paid. *)

PayMaxExpenses == 2
PaySuppliers == {Null, 1}
PayForms ==
    {f \in Forms({10000, 30000}, {2100}, {FirstDay, FirstDay + 1}, {"draft"}, PaySuppliers) :
        f.amount = 10000 <=> f.expense_date = FirstDay}
PayEdits == Forms({20000}, {2100}, {FirstDay}, {"paid"}, PaySuppliers)
PayPks == 1..PayMaxExpenses

NextPay ==
    \/ Len(suppliers) + 1 < Cardinality(PaySuppliers) /\ \E d \in PlainSupplierPosts : SupplierCreate(1, d)
    \/ \E f \in PayForms :
          Len(expenses) < PayMaxExpenses /\ ValidForm(f) /\ ExpenseCreate(1, f)
    \/ \E pk \in PayPks, f \in PayEdits : ValidForm(f) /\ ExpenseEdit(1, pk, f)
    \/ \E pk \in PayPks : ExpenseDelete(1, pk)
    \/ \E pk \in PayPks : ExpenseMarkPaid(1, pk)

SpecPay == Init /\ [][NextPay]_vars

(* What a supplier's paid, non-deleted expenses add up to, counted row by row *)
CountsFor(e, s) == e.supplier = s /\ ~e.is_deleted /\ e.status = "paid"

RECURSIVE SpentUpTo(_, _, _)
SpentUpTo(rows, s, n) ==
    IF n = 0 THEN 0
    ELSE SpentUpTo(rows, s, n - 1)
            + (IF CountsFor(rows[n], s) THEN rows[n].total_amount ELSE 0)

LatestPurchaseIs(rows, s, d) ==
    IF \A i \in 1..Len(rows) : ~CountsFor(rows[i], s)
    THEN d = Null
    ELSE /\ \E i \in 1..Len(rows) : CountsFor(rows[i], s) /\ rows[i].expense_date = d
         /\ \A i \in 1..Len(rows) : CountsFor(rows[i], s) => rows[i].expense_date <= d

(* C9: after a successful mark_paid the expense has status paid and paid_at
   set, and a linked supplier's total_spent is the sum of total_amount over its
   non-deleted paid expenses and its last_purchase_date their latest expense_date. *)
C9_PaidAndSupplierRecomputed ==
    (response.op = "mark_paid" /\ response.success) =>
        LET e == expenses[response.pk]
        IN  /\ e.status = "paid"
            /\ e.paid_at # Null
            /\ e.supplier # Null =>
                /\ suppliers[e.supplier].total_spent
                      = SpentUpTo(expenses, e.supplier, Len(expenses))
                /\ LatestPurchaseIs(expenses, e.supplier,
                                    suppliers[e.supplier].last_purchase_date)

(* the second of a supplier's two expenses has just been paid: the total is
   121.00 + 363.00 and the last purchase is the later date *)
C9_Witness ==
    /\ response.op = "mark_paid"
    /\ response.success
    /\ response.was = "draft"
    /\ Len(expenses) = 2
    /\ \A i \in 1..2 : CountsFor(expenses[i], 1)
    /\ expenses[1].expense_date # expenses[2].expense_date
    /\ suppliers[1].total_spent = 48400
    /\ suppliers[1].last_purchase_date = FirstDay + 1

(* C11: after an edit that sets an expense's status to or away from paid, or
   changes a paid expense, the supplier it had and the supplier it has hold
   the recomputation over their current non-deleted paid expenses. *)
C11_EditRecomputesSuppliers ==
    [][\A pk \in PayPks, f \in PayEdits :
        (/\ Found(1, pk)
         /\ ValidForm(f)
         /\ ExpenseEdit(1, pk, f)
         /\ (expenses[pk].status = "paid" \/ expenses'[pk].status = "paid")
         /\ expenses'[pk] # expenses[pk]) =>
            \A s \in {expenses[pk].supplier, expenses'[pk].supplier} \ {Null} :
                /\ suppliers'[s].total_spent = SpentUpTo(expenses', s, Len(expenses'))
                /\ LatestPurchaseIs(expenses', s, suppliers'[s].last_purchase_date)]_vars

---------------------------------------------------------------------------
(* Supplier.update_totals on its own: the tables hold expenses of two suppliers
   and of none, in every status, deleted or not, and supplier 1's cached totals
   are the defaults or left over from expenses that no longer count. *)

TotalsMaxExpenses == 2
TotalsForms ==
    {f \in Forms({10000, 30000}, {2100}, {FirstDay, FirstDay + 1}, Statuses, {Null, 1, 2}) :
        f.amount = 10000 <=> f.expense_date = FirstDay}

TotalsRow(f, deleted) == [ComputeAmounts(NewExpense(1, f)) EXCEPT !.is_deleted = deleted]

TotalsRows == {TotalsRow(f, d) : f \in TotalsForms, d \in BOOLEAN}

(* the rows as the table holds them, numbered in the order of their creation *)
Numbered(rows) ==
    [i \in 1..Len(rows) |->
        [rows[i] EXCEPT !.expense_number =
            FullPrefix(StrEXP, FirstDay) \o <<ChDash>> \o Format04d(i)]]

LeftOver == [NewSupplier(1) EXCEPT !.total_spent = 24200, !.last_purchase_date = FirstDay + 1]

InitTotals ==
    /\ expenses \in {Numbered(rows) :
                        rows \in UNION {[1..n -> TotalsRows] : n \in 0..TotalsMaxExpenses}}
    /\ suppliers \in {<<c, NewSupplier(1)>> : c \in {NewSupplier(1), LeftOver}}
    /\ settings = GetSettings([h \in Hubs |-> DefaultSettings], 1)
    /\ now = FirstDay
    /\ inflight = <<>>
    /\ response = NoResponse

(* supplier.update_totals(), called on a supplier row *)
Recompute(s) ==
    /\ suppliers' = UpdateTotals(suppliers, expenses, s)
    /\ response' = [op |-> "update_totals", hub |-> suppliers[s].hub_id, pk |-> s,
                    status_code |-> Null, success |-> TRUE, was |-> "none"]
    /\ UNCHANGED <<expenses, settings, now, inflight>>

NextTotals == \E s \in 1..Len(suppliers) : Recompute(s)

SpecTotals == InitTotals /\ [][NextTotals]_vars

(* C10: update_totals writes total_spent = the sum of total_amount over exactly
   the supplier's non-deleted paid expenses and last_purchase_date = their
   latest expense_date, and 0.00 and null when there is none, whatever the
   cached values were. *)
C10_FullRecomputation ==
    response.op = "update_totals" =>
        LET s == response.pk
            counted == {i \in 1..Len(expenses) : CountsFor(expenses[i], s)}
        IN  /\ suppliers[s].total_spent = SpentUpTo(expenses, s, Len(expenses))
            /\ LatestPurchaseIs(expenses, s, suppliers[s].last_purchase_date)
            /\ counted = {} =>
                (suppliers[s].total_spent = 0 /\ suppliers[s].last_purchase_date = Null)

(* supplier 1 has a soft-deleted paid expense and an approved one, and none
   that counts: the recomputation has written 0.00 and null *)
C10_Witness ==
    /\ response.op = "update_totals"
    /\ response.pk = 1
    /\ Len(expenses) = 2
    /\ expenses[1].supplier = 1 /\ expenses[1].status = "paid" /\ expenses[1].is_deleted
    /\ expenses[2].supplier = 1 /\ expenses[2].status = "approved" /\ ~expenses[2].is_deleted
    /\ suppliers[1].total_spent = 0
    /\ suppliers[1].last_purchase_date = Null

---------------------------------------------------------------------------
(* Declined payments: one tenant's expenses, linked to a supplier or not, are
   created in several statuses and marked paid while the approval settings
   change, so that a supplier holds totals of earlier payments when a later
   payment is declined. *)

DeclineMaxExpenses == 2
DeclineForms ==
    Forms({10000, 20000}, {2100}, {FirstDay}, {"draft", "approved", "rejected"}, PaySuppliers)
DeclineConfigs == Configs(BOOLEAN, {0, 12100}, {StrEXP})
DeclinePks == 1..DeclineMaxExpenses

NextDecline ==
    \/ Len(suppliers) + 1 < Cardinality(PaySuppliers) /\ \E d \in PlainSupplierPosts : SupplierCreate(1, d)
    \/ \E f \in DeclineForms :
          Len(expenses) < DeclineMaxExpenses /\ ValidForm(f) /\ ExpenseCreate(1, f)
    \/ \E pk \in DeclinePks : ExpenseMarkPaid(1, pk)
    \/ \E d \in DeclineConfigs : SettingsSave(1, d)

SpecDecline == Init /\ [][NextDecline]_vars

(* C12: a mark_paid request that the approval gate declines answers
   success=false (as a normal response, not a fault) and leaves every expense
   and every supplier as it was. *)
C12_DeclinedChangesNothing ==
    [][\A pk \in DeclinePks :
        (/\ Found(1, pk)
         /\ ExpenseMarkPaid(1, pk)
         /\ settings[1].require_approval
         /\ expenses[pk].status # "approved"
         /\ (\/ expenses[pk].total_amount > settings[1].approval_threshold
             \/ settings[1].approval_threshold = 0)) =>
            /\ ~response'.success
            /\ response'.status_code = 200
            /\ expenses' = expenses
            /\ suppliers' = suppliers]_vars

(* a draft of supplier 1 has just been declined while the supplier holds the
   total of an earlier payment *)
C12_Witness ==
    /\ response.op = "mark_paid"
    /\ ~response.success
    /\ response.was = "draft"
    /\ expenses[response.pk].supplier = 1
    /\ expenses[response.pk].status = "draft"
    /\ expenses[response.pk].paid_at = Null
    /\ suppliers[1].total_spent > 0
    /\ suppliers[1].last_purchase_date = FirstDay

---------------------------------------------------------------------------
(* Failing payments: expenses linked to a supplier are marked paid, and the
   supplier's recomputation may fail after the expense was saved. *)

FaultMaxExpenses == 2
FaultForms == Forms({10000, 20000}, {2100}, {FirstDay}, {"draft", "approved"}, PaySuppliers)
FaultPks == 1..FaultMaxExpenses

NextFault ==
    \/ Len(suppliers) + 1 < Cardinality(PaySuppliers) /\ \E d \in PlainSupplierPosts : SupplierCreate(1, d)
    \/ \E f \in FaultForms :
          Len(expenses) < FaultMaxExpenses /\ ValidForm(f) /\ ExpenseCreate(1, f)
    \/ \E pk \in FaultPks : ExpenseMarkPaid(1, pk)
    \/ \E pk \in FaultPks : ExpenseMarkPaidFailing(1, pk)

SpecFault == Init /\ [][NextFault]_vars

(* C13: a mark_paid request that answers success=false, whatever made it
   fail, leaves the expense's status and paid_at and the supplier's totals as
   they were: the two writes are committed together or not at all. *)
C13_AllOrNothing ==
    [][\A pk \in FaultPks :
        (/\ Found(1, pk)
         /\ (ExpenseMarkPaid(1, pk) \/ ExpenseMarkPaidFailing(1, pk))
         /\ ~response'.success) =>
            /\ expenses'[pk].status = expenses[pk].status
            /\ expenses'[pk].paid_at = expenses[pk].paid_at
            /\ suppliers' = suppliers]_vars

---------------------------------------------------------------------------
(* Life of a number: an expense is created, then edited, approved, paid and
   soft-deleted while the tenant's prefix changes and midnight passes. *)

KeepMaxExpenses == 1
KeepForms == Forms({10000}, {2100}, {FirstDay}, {"draft"}, {Null})
KeepEdits == Forms({20000}, {2100}, {FirstDay}, {"draft", "paid"}, {Null})
KeepConfigs == Configs({FALSE}, {0}, {StrEXP, StrGASTO})
KeepPks == 1..KeepMaxExpenses

NextKeep ==
    \/ \E f \in KeepForms : Len(expenses) < KeepMaxExpenses /\ ExpenseCreate(1, f)
    \/ \E pk \in KeepPks, f \in KeepEdits : ExpenseEdit(1, pk, f)
    \/ \E pk \in KeepPks : ExpenseApprove(1, pk, 1)
    \/ \E pk \in KeepPks : ExpenseMarkPaid(1, pk)
    \/ \E pk \in KeepPks : ExpenseDelete(1, pk)
    \/ \E d \in KeepConfigs : SettingsSave(1, d)
    \/ now = FirstDay /\ Tick

SpecKeep == Init /\ [][NextKeep]_vars

(* C14: every stored expense has a number, and no request changes the number
   of a stored expense, also after the prefix setting or the date changed. *)
C14_NumberImmutable ==
    [][\A i \in 1..Len(expenses) :
        /\ expenses[i].expense_number # <<>>
        /\ i <= Len(expenses')
        /\ expenses'[i].expense_number = expenses[i].expense_number]_vars

(* an expense numbered EXP-20261103-0001 has just been edited on the next day
   under the prefix GASTO and keeps its number *)
C14_Witness ==
    /\ response.op = "edit"
    /\ response.success
    /\ now = FirstDay + 1
    /\ settings[1].number_prefix = StrGASTO
    /\ expenses[response.pk].amount = 20000
    /\ expenses[response.pk].expense_number
          = FullPrefix(StrEXP, FirstDay) \o <<ChDash>> \o Format04d(1)

---------------------------------------------------------------------------
(* Rounding: expenses are created and edited with amounts and rates whose tax
   lies exactly halfway between two cents (0.50, 1.50 and 2.50 at 1.00 % and
   3.00 %) and with amounts whose tax is exact. *)

RoundMaxExpenses == 2
RoundAmounts == {50, 150, 250, 10000}
RoundRates == {100, 300, 2100}
RoundForms == Forms(RoundAmounts, RoundRates, {FirstDay}, {"draft"}, {Null})
RoundPks == 1..RoundMaxExpenses

NextRound ==
    \/ \E f \in RoundForms : Len(expenses) < RoundMaxExpenses /\ ExpenseCreate(1, f)
    \/ \E pk \in RoundPks, f \in RoundForms : ExpenseEdit(1, pk, f)

SpecRound == Init /\ [][NextRound]_vars

(* amount * tax_rate / 100 lies exactly halfway between two cent values *)
Halfway(amount, tax_rate) == 2 * ((amount * tax_rate) % RateScale) = RateScale

(* C15: whenever amount * tax_rate / 100 lies exactly halfway between two cent
   values, the stored tax_amount is the upper of the two (round half-up). *)
C15_RoundsHalfUp ==
    \A i \in 1..Len(expenses) :
        Halfway(expenses[i].amount, expenses[i].tax_rate) =>
            expenses[i].tax_amount
                = ((expenses[i].amount * expenses[i].tax_rate) \div RateScale) + 1

---------------------------------------------------------------------------
(* Requests for missing expenses: two tenants create and soft-delete
   expenses, and each asks for the detail, edit, deletion, approval and payment
   of primary keys that were never stored, are soft-deleted or belong to the
   other tenant. *)

MissingMaxExpenses == 1
MissingForms == Forms({10000}, {2100}, {FirstDay}, {"draft", "approved"}, {Null})
MissingPks == 1..(MissingMaxExpenses + 1)

NextMissing ==
    \/ \E h \in Hubs, f \in MissingForms :
          Len(expenses) < MissingMaxExpenses /\ ExpenseCreate(h, f)
    \/ \E h \in Hubs, pk \in MissingPks : ExpenseDetail(h, pk)
    \/ \E h \in Hubs, pk \in MissingPks, f \in MissingForms : ExpenseEdit(h, pk, f)
    \/ \E h \in Hubs, pk \in MissingPks : ExpenseDelete(h, pk)
    \/ \E h \in Hubs, pk \in MissingPks : ExpenseApprove(h, pk, 1)
    \/ \E h \in Hubs, pk \in MissingPks : ExpenseMarkPaid(h, pk)

SpecMissing == Init /\ [][NextMissing]_vars

(* C16: a detail, edit, delete, approve or mark_paid request naming an expense
   that is not stored, is soft-deleted or belongs to another tenant is answered
   with status 404 and changes no expense and no supplier. *)
C16_MissingAnswersNotFound ==
    [][\A h \in Hubs, pk \in MissingPks :
        (/\ ~Found(h, pk)
         /\ (\/ ExpenseDetail(h, pk)
             \/ \E f \in MissingForms : ExpenseEdit(h, pk, f)
             \/ ExpenseDelete(h, pk)
             \/ ExpenseApprove(h, pk, 1)
             \/ ExpenseMarkPaid(h, pk))) =>
            /\ response'.status_code = 404
            /\ expenses' = expenses
            /\ suppliers' = suppliers]_vars

(* the expenses that are not soft-deleted, as a table of their own *)
Kept(rows) == SelectSeq(rows, LAMBDA e : ~e.is_deleted)

(* C17: a soft-deleted expense is in no default-scoped listing, detail or
   total of any tenant, stays in the table with is_deleted set and every other
   field as it was when it was deleted, and no later request changes it. *)
C17_DeletedHiddenButKept ==
    [][/\ \A h \in Hubs, pk \in MissingPks :
            (Found(h, pk) /\ ExpenseDelete(h, pk)) =>
                expenses' = [expenses EXCEPT ![pk].is_deleted = TRUE]
       /\ \A i \in 1..Len(expenses) :
            expenses[i].is_deleted => (i <= Len(expenses') /\ expenses'[i] = expenses[i])
       /\ \A i \in 1..Len(expenses') : \A h \in Hubs :
            expenses'[i].is_deleted =>
                /\ i \notin ExpenseList(expenses', h)
                /\ i \notin MonthExpenses(expenses', h, now')
                /\ i \notin ReportExpenses(expenses', h, FirstDay)
                /\ ~Found(h, i)'
       /\ \A h \in Hubs :
            /\ Cardinality(ExpenseList(expenses', h))
                  = Len(SelectSeq(Kept(expenses'), LAMBDA e : e.hub_id = h))
            /\ TotalThisMonth(expenses', h, now') = TotalThisMonth(Kept(expenses'), h, now')
            /\ TotalExpenses(expenses', h, FirstDay) = TotalExpenses(Kept(expenses'), h, FirstDay)
      ]_vars

(* the owner's edit of a soft-deleted, approved expense has just been answered
   404 and the row is as it was *)
C17_Witness ==
    /\ response.op = "edit"
    /\ response.status_code = 404
    /\ response.pk = 1
    /\ Len(expenses) >= 1
    /\ response.hub = expenses[1].hub_id
    /\ expenses[1].is_deleted
    /\ expenses[1].status = "approved"
    /\ expenses[1].total_amount = 12100

---------------------------------------------------------------------------
(* Settings: two tenants open the settings page and save settings, in any
   order. *)

SettingsConfigs == Configs(BOOLEAN, {0, 50000}, {StrEXP, StrGASTO})

NextSettings ==
    \/ \E h \in Hubs : SettingsView(h)
    \/ \E h \in Hubs, d \in SettingsConfigs : SettingsSave(h, d)

SpecSettings == Init /\ [][NextSettings]_vars

(* the values a settings record is created with *)
HasDefaults(config) ==
    /\ config.require_approval = FALSE
    /\ config.approval_threshold = 0
    /\ config.default_tax_rate = 2100
    /\ config.auto_numbering = TRUE
    /\ config.number_prefix = StrEXP

(* C18: the first get_settings of a tenant creates one record holding the
   defaults, every later one returns that record as it is (also after it was
   updated), another tenant's record is not touched, and no tenant ever has
   more than one record. *)
C18_SettingsSingleton ==
    [][/\ \A h \in Hubs :
            SettingsView(h) =>
                /\ settings'[h].records = 1
                /\ IF settings[h].records = 0
                   THEN HasDefaults(settings'[h])
                   ELSE settings'[h] = settings[h]
                /\ \A g \in Hubs \ {h} : settings'[g] = settings[g]
       /\ \A h \in Hubs, d \in SettingsConfigs :
            SettingsSave(h, d) =>
                /\ settings'[h].records = 1
                /\ settings'[h].number_prefix = d.number_prefix
                /\ settings'[h].require_approval = d.require_approval
                /\ settings'[h].approval_threshold = d.approval_threshold
       /\ \A h \in Hubs : settings'[h].records <= 1]_vars

(* tenant 2 has just opened the settings page after saving GASTO, approval
   required above 500.00, and got that record back *)
C18_Witness ==
    /\ response.op = "settings_view"
    /\ response.hub = 2
    /\ settings[2].records = 1
    /\ settings[2].number_prefix = StrGASTO
    /\ settings[2].require_approval
    /\ settings[2].approval_threshold = 50000
    /\ settings[1].records = 0

---------------------------------------------------------------------------
(* Approval and payment stamps: an expense is created and edited in any
   status, approved by either employee, marked paid (also declined, when
   approval is required) and soft-deleted. *)

StampMaxExpenses == 1
StampForms == Forms({10000}, {2100}, {FirstDay}, Statuses, {Null})
StampConfigs == Configs(BOOLEAN, {0}, {StrEXP})
StampPks == 1..StampMaxExpenses

NextStamp ==
    \/ \E f \in StampForms : Len(expenses) < StampMaxExpenses /\ ExpenseCreate(1, f)
    \/ \E pk \in StampPks, f \in StampForms : ExpenseEdit(1, pk, f)
    \/ \E pk \in StampPks, u \in Users : ExpenseApprove(1, pk, u)
    \/ \E pk \in StampPks : ExpenseMarkPaid(1, pk)
    \/ \E pk \in StampPks : ExpenseDelete(1, pk)
    \/ \E d \in StampConfigs : SettingsSave(1, d)

SpecStamp == Init /\ [][NextStamp]_vars

(* C19: approved_by and approved_at of a stored expense change only in a
   successful approve of that expense, paid_at only in a successful mark_paid
   of it, and an expense is created with all three empty. *)
C19_StampsOnlyByTransitions ==
    [][/\ \A i \in 1..Len(expenses) :
            /\ i <= Len(expenses')
            /\ (\/ expenses'[i].approved_by # expenses[i].approved_by
                \/ expenses'[i].approved_at # expenses[i].approved_at) =>
                    /\ \E u \in Users : ExpenseApprove(1, i, u)
                    /\ response'.success
                    /\ expenses'[i].paid_at = expenses[i].paid_at
            /\ expenses'[i].paid_at # expenses[i].paid_at =>
                    /\ ExpenseMarkPaid(1, i)
                    /\ response'.success
       /\ \A i \in (Len(expenses) + 1)..Len(expenses') :
            /\ expenses'[i].approved_by = Null
            /\ expenses'[i].approved_at = Null
            /\ expenses'[i].paid_at = Null]_vars

(* an expense approved by employee 2 has just been edited into status paid:
   it keeps its approval stamp and has no paid_at *)
C19_Witness ==
    /\ response.op = "edit"
    /\ response.success
    /\ response.was = "approved"
    /\ expenses[response.pk].status = "paid"
    /\ expenses[response.pk].approved_by = 2
    /\ expenses[response.pk].approved_at = FirstDay
    /\ expenses[response.pk].paid_at = Null

---------------------------------------------------------------------------
(* Supplier forms: a supplier is created, edited and soft-deleted with posted
   data that also carries values for total_spent and last_purchase_date, while
   expenses linked to it are created and marked paid. *)

CachedMaxExpenses == 2
CachedPosts == SupplierPosts(BOOLEAN, {0, 99900}, {Null, FirstDay + 1})
CachedForms == Forms({10000}, {2100}, {FirstDay}, {"draft"}, PaySuppliers)
CachedPks == 1..CachedMaxExpenses
CachedSuppliers == PaySuppliers \ {Null}

NextCached ==
    \/ \E d \in CachedPosts :
          Len(suppliers) < Cardinality(CachedSuppliers) /\ SupplierCreate(1, d)
    \/ \E s \in CachedSuppliers, d \in CachedPosts : SupplierEdit(1, s, d)
    \/ \E s \in CachedSuppliers : SupplierDelete(1, s)
    \/ \E f \in CachedForms :
          Len(expenses) < CachedMaxExpenses /\ ValidForm(f) /\ ExpenseCreate(1, f)
    \/ \E pk \in CachedPks : ExpenseMarkPaid(1, pk)

SpecCached == Init /\ [][NextCached]_vars

(* C20: a supplier is created with total_spent 0.00 and no last_purchase_date
   whatever was posted, and the two fields of a stored supplier change only
   in the recomputation run by a successful mark_paid of one of its expenses,
   never in supplier_create, supplier_edit or supplier_delete. *)
C20_TotalsOnlyRecomputed ==
    [][/\ \A s \in 1..Len(suppliers) :
            /\ s <= Len(suppliers')
            /\ (\/ suppliers'[s].total_spent # suppliers[s].total_spent
                \/ suppliers'[s].last_purchase_date # suppliers[s].last_purchase_date) =>
                    /\ \E pk \in CachedPks :
                          /\ Found(1, pk)
                          /\ expenses[pk].supplier = s
                          /\ ExpenseMarkPaid(1, pk)
                    /\ response'.success
                    /\ suppliers'[s].total_spent = SpentUpTo(expenses', s, Len(expenses'))
                    /\ LatestPurchaseIs(expenses', s, suppliers'[s].last_purchase_date)
       /\ \A s \in (Len(suppliers) + 1)..Len(suppliers') :
            /\ suppliers'[s].total_spent = 0
            /\ suppliers'[s].last_purchase_date = Null]_vars

(* supplier 1, holding the total of a paid expense, has just been edited to
   inactive and keeps its totals *)
C20_Witness ==
    /\ response.op = "supplier_edit"
    /\ response.success
    /\ response.pk = 1
    /\ ~suppliers[1].is_active
    /\ suppliers[1].total_spent = 12100
    /\ suppliers[1].last_purchase_date = FirstDay

---------------------------------------------------------------------------
(* Creation with defaults: expenses are created through Expense.objects.create
   with no status and no number, for two tenants, under two prefixes and over
   a change of day, on an empty table or after the day's 9999th expense. *)

DraftMaxExpenses == 3
DraftKwargs == [amount : {10000}, tax_rate : {1000}, expense_date : {FirstDay}]

NextDraft ==
    \/ \E h \in Hubs, k \in DraftKwargs :
          Len(expenses) < DraftMaxExpenses /\ ObjectsCreate(h, k)
    \/ \E h \in Hubs, d \in NumberConfigs : SettingsSave(h, d)
    \/ now = FirstDay /\ Tick

SpecDraft == InitNumber /\ [][NextDraft]_vars

(* C21: an expense created with no status and no number is stored as draft
   with the number "{prefix}-{YYYYMMDD}-{sequence}": the prefix is the
   tenant's number_prefix at that moment, the date is today, and the sequence,
   of at least four digits, is 1 or one more than the sequence of the expense
   created last for that tenant, day and prefix. *)
C21_DraftWithNextNumber ==
    [][\A h \in Hubs, k \in DraftKwargs :
        ObjectsCreate(h, k) =>
            LET i == Len(expenses')
                e == expenses'[i]
                key == settings[h].number_prefix \o <<ChDash>> \o Strftime(now)
                earlier == EarlierOfKey(expenses', i)
                prev == CHOOSE j \in earlier : \A m \in earlier : m <= j
                sequence == LastField(e.expense_number)
            IN  /\ e.status = "draft"
                /\ e.expense_number = key \o <<ChDash>> \o sequence
                /\ IntParses(sequence)
                /\ Len(sequence) >= 4
                /\ DigitsValue(sequence) =
                      IF earlier = {} THEN 1
                      ELSE SuffixOf(expenses'[prev].expense_number) + 1]_vars

(* C22: supplier_delete deletes and soft-deletes no expense, and afterwards
   no expense references the deleted supplier: the reference is null. *)
C22_DeletedSupplierUnlinked ==
    [][\A s \in CachedSuppliers :
        (FoundSupplier(1, s) /\ SupplierDelete(1, s)) =>
            /\ Len(expenses') = Len(expenses)
            /\ \A i \in 1..Len(expenses) :
                /\ expenses'[i].is_deleted = expenses[i].is_deleted
                /\ expenses[i].supplier = s => expenses'[i].supplier = Null]_vars

(* C23: expense_delete leaves every supplier as it was, so a supplier keeps
   counting a paid expense that was soft-deleted; a supplier's totals change
   only in a later successful mark_paid of one of its expenses. *)
C23_DeleteKeepsTotals ==
    [][/\ \A pk \in PayPks :
            (Found(1, pk) /\ ExpenseDelete(1, pk)) =>
                /\ response'.success
                /\ expenses'[pk].is_deleted
                /\ suppliers' = suppliers
       /\ \A s \in 1..Len(suppliers) :
            (\/ suppliers'[s].total_spent # suppliers[s].total_spent
             \/ suppliers'[s].last_purchase_date # suppliers[s].last_purchase_date) =>
                \E pk \in PayPks :
                    /\ Found(1, pk)
                    /\ expenses[pk].supplier = s
                    /\ ExpenseMarkPaid(1, pk)
                    /\ response'.success]_vars

(* supplier 1's only paid expense has just been soft-deleted and the supplier
   still holds its total and date *)
C23_Witness ==
    /\ response.op = "delete"
    /\ response.success
    /\ response.was = "paid"
    /\ expenses[response.pk].supplier = 1
    /\ expenses[response.pk].is_deleted
    /\ SpentUpTo(expenses, 1, Len(expenses)) = 0
    /\ suppliers[1].total_spent = expenses[response.pk].total_amount
    /\ suppliers[1].last_purchase_date = expenses[response.pk].expense_date

---------------------------------------------------------------------------
(* Prefix of a new number: expenses are created while the tenant's settings
   switch auto_numbering on and off and set the prefix to EXP, GASTO or the
   empty string, and while the settings lookup of the save may fail. *)

PrefixMaxExpenses == 3
PrefixConfigs ==
    [require_approval : {FALSE}, approval_threshold : {0},
     default_tax_rate : {DefaultSettings.default_tax_rate},
     auto_numbering : BOOLEAN, number_prefix : {StrEXP, StrGASTO, <<>>}]

NextPrefix ==
    \/ \E k \in DraftKwargs : Len(expenses) < PrefixMaxExpenses /\ ObjectsCreate(1, k)
    \/ \E k \in DraftKwargs :
          Len(expenses) < PrefixMaxExpenses /\ ObjectsCreateLookupFailing(1, k)
    \/ \E d \in PrefixConfigs : SettingsSave(1, d)
    \/ now = FirstDay /\ Tick

SpecPrefix == Init /\ [][NextPrefix]_vars

(* the number starts with "EXP-{today}-" *)
NumberedEXP(number, today) == StartsWith(number, StrEXP \o <<ChDash>> \o Strftime(today) \o <<ChDash>>)

(* C24: a first save whose settings lookup fails still stores the expense,
   numbered with the prefix EXP, and a first save under an empty configured
   number_prefix uses EXP too. *)
C24_FallbackPrefix ==
    [][\A k \in DraftKwargs :
        /\ ObjectsCreateLookupFailing(1, k) =>
                /\ Len(expenses') = Len(expenses) + 1
                /\ NumberedEXP(expenses'[Len(expenses')].expense_number, now)
        /\ (ObjectsCreate(1, k) /\ settings[1].number_prefix = <<>>) =>
                /\ Len(expenses') = Len(expenses) + 1
                /\ NumberedEXP(expenses'[Len(expenses')].expense_number, now)]_vars

(* under auto_numbering with the prefix GASTO, an expense has just been
   created whose settings lookup failed: it is numbered EXP *)
C24_Witness ==
    /\ response.op = "objects_create"
    /\ response.pk = Len(expenses)
    /\ settings[1].auto_numbering
    /\ settings[1].number_prefix = StrGASTO
    /\ NumberedEXP(expenses[response.pk].expense_number, now)

(* C30: every stored expense has a non-empty number, and a first save under
   auto_numbering = false generates one with the prefix EXP whatever the
   configured number_prefix is. *)
C30_NumberedWithoutAutoNumbering ==
    [][/\ \A i \in 1..Len(expenses') : expenses'[i].expense_number # <<>>
       /\ \A k \in DraftKwargs :
            (ObjectsCreate(1, k) /\ ~settings[1].auto_numbering) =>
                /\ Len(expenses') = Len(expenses) + 1
                /\ NumberedEXP(expenses'[Len(expenses')].expense_number, now)]_vars

(* under auto_numbering = false with the prefix GASTO, an expense has just
   been created and is numbered EXP *)
C30_Witness ==
    /\ response.op = "objects_create"
    /\ response.pk = Len(expenses)
    /\ settings[1].records = 1
    /\ ~settings[1].auto_numbering
    /\ settings[1].number_prefix = StrGASTO
    /\ NumberedEXP(expenses[response.pk].expense_number, now)

---------------------------------------------------------------------------
(* Lifecycle under mandatory approval: the tenant's settings have been saved
   with require_approval on and the threshold 0 and stay so; expenses are
   created as drafts (also with the zero amount), edited without a change of
   status, approved, marked paid and deleted. *)

LifecycleMaxExpenses == 1
LifecycleForms == Forms({0, 10000}, {2100}, {FirstDay}, {"draft"}, {Null})
LifecycleEdits == Forms({20000}, {2100}, {FirstDay}, Statuses, {Null})
LifecycleConfigs == Configs({TRUE}, {0}, {StrEXP})
LifecyclePks == 1..LifecycleMaxExpenses

(* the tables after settings_save has stored require_approval = true *)
InitLifecycle ==
    /\ expenses = <<>>
    /\ suppliers = <<>>
    /\ settings = [GetSettings([h \in Hubs |-> DefaultSettings], 1) EXCEPT
                      ![1].require_approval = TRUE]
    /\ now = FirstDay
    /\ inflight = <<>>
    /\ response = NoResponse

NextLifecycle ==
    \/ \E f \in LifecycleForms : Len(expenses) < LifecycleMaxExpenses /\ ExpenseCreate(1, f)
    \/ \E pk \in LifecyclePks, f \in LifecycleEdits :
          /\ Found(1, pk)
          /\ f.status = expenses[pk].status
          /\ ExpenseEdit(1, pk, f)
    \/ \E pk \in LifecyclePks, u \in Users : ExpenseApprove(1, pk, u)
    \/ \E pk \in LifecyclePks : ExpenseMarkPaid(1, pk)
    \/ \E pk \in LifecyclePks : ExpenseDelete(1, pk)
    \/ \E d \in LifecycleConfigs : SettingsSave(1, d)
    \/ now = FirstDay /\ Tick

SpecLifecycle == InitLifecycle /\ [][NextLifecycle]_vars

(* C25: with require_approval on and the threshold 0 throughout, expenses
   created as drafts and their status changed by approve and mark_paid only,
   an expense is paid only from status approved with approved_at set: every
   paid expense was approved at an earlier point. *)
C25_PaidAfterApproved ==
    [][\A i \in 1..Len(expenses') :
          IF i > Len(expenses)
          THEN expenses'[i].status = "draft"
          ELSE expenses'[i].status = "paid" =>
                  /\ expenses[i].status \in {"approved", "paid"}
                  /\ expenses[i].approved_at # Null
                  /\ expenses'[i].approved_at = expenses[i].approved_at]_vars

(* an expense of total 0, approved on the first day, has just been paid on
   the second *)
C25_Witness ==
    /\ response.op = "mark_paid"
    /\ response.success
    /\ response.was = "approved"
    /\ settings[1].require_approval
    /\ settings[1].approval_threshold = 0
    /\ expenses[response.pk].status = "paid"
    /\ expenses[response.pk].total_amount = 0
    /\ expenses[response.pk].approved_at = FirstDay
    /\ expenses[response.pk].paid_at = FirstDay + 1

---------------------------------------------------------------------------
(* Overlapping approval and payment: expense_approve and expense_mark_paid
   requests of several workers overlap. Each request runs its statements in
   autocommit, with no transaction and no lock: the read of the expense, the
   save(update_fields=...) of the expense, the aggregate query of
   update_totals and the save of the supplier are steps of their own. Approval
   is not required (the settings' default). *)

OverlapMaxExpenses == 2
OverlapMaxRequests == 2
OverlapForms == Forms({10000, 20000}, {2100}, {FirstDay}, {"draft"}, {Null, 1})
OverlapPks == 1..OverlapMaxExpenses

(* a request that has read its expense: the view's local variables *)
Request(op, hub, pk, employee, step) ==
    [op |-> op, hub |-> hub, pk |-> pk, employee |-> employee, step |-> step,
     supplier |-> expenses[pk].supplier, total |-> Null, last_date |-> Null]

Without(seq, k) == SubSeq(seq, 1, k - 1) \o SubSeq(seq, k + 1, Len(seq))

(* expense_approve up to line 301: the expense is read and found approvable *)
ApproveRead(hub, pk, employee) ==
    IF ~Found(hub, pk)
    THEN /\ response' = Respond("approve", hub, pk, 400, FALSE)
         /\ UNCHANGED <<expenses, suppliers, settings, now, inflight>>
    ELSE IF expenses[pk].status \notin Approvable
    THEN /\ response' = Respond("approve", hub, pk, 200, FALSE)
         /\ UNCHANGED <<expenses, suppliers, settings, now, inflight>>
    ELSE /\ inflight' = Append(inflight, Request("approve", hub, pk, employee, "save"))
         /\ UNCHANGED <<expenses, suppliers, settings, now, response>>

(* expense_approve lines 302-306: UPDATE of status, approved_by, approved_at *)
ApproveSave(k) ==
    /\ k \in 1..Len(inflight)
    /\ inflight[k].op = "approve"
    /\ LET r == inflight[k]
       IN  /\ expenses' = [expenses EXCEPT ![r.pk].status = "approved",
                                           ![r.pk].approved_by = r.employee,
                                           ![r.pk].approved_at = now]
           /\ response' = Respond("approve", r.hub, r.pk, 200, TRUE)
    /\ inflight' = Without(inflight, k)
    /\ UNCHANGED <<suppliers, settings, now>>

(* expense_mark_paid up to line 328: the expense and the settings are read
   and the gate is passed *)
MarkPaidRead(hub, pk) ==
    IF ~Found(hub, pk)
    THEN /\ response' = Respond("mark_paid", hub, pk, 400, FALSE)
         /\ UNCHANGED <<expenses, suppliers, settings, now, inflight>>
    ELSE LET config == GetSettings(settings, hub)
         IN  /\ settings' = config
             /\ IF NeedsApproval(expenses[pk], config[hub])
                THEN /\ response' = Respond("mark_paid", hub, pk, 200, FALSE)
                     /\ UNCHANGED <<expenses, suppliers, now, inflight>>
                ELSE /\ inflight' = Append(inflight,
                                           Request("mark_paid", hub, pk, Null, "save"))
                     /\ UNCHANGED <<expenses, suppliers, now, response>>

(* expense_mark_paid line 329: UPDATE of status and paid_at; without a
   supplier the view responds *)
MarkPaidSave(k) ==
    /\ k \in 1..Len(inflight)
    /\ inflight[k].op = "mark_paid"
    /\ inflight[k].step = "save"
    /\ LET r == inflight[k]
       IN  /\ expenses' = [expenses EXCEPT ![r.pk] = Paid(expenses[r.pk], now)]
           /\ IF r.supplier = Null
              THEN /\ inflight' = Without(inflight, k)
                   /\ response' = Respond("mark_paid", r.hub, r.pk, 200, TRUE)
              ELSE /\ inflight' = [inflight EXCEPT ![k].step = "aggregate"]
                   /\ UNCHANGED response
    /\ UNCHANGED <<suppliers, settings, now>>

(* update_totals lines 162-169: the aggregate query over the supplier's
   non-deleted paid expenses *)
MarkPaidAggregate(k) ==
    /\ k \in 1..Len(inflight)
    /\ inflight[k].op = "mark_paid"
    /\ inflight[k].step = "aggregate"
    /\ LET paid == PaidExpenses(expenses, inflight[k].supplier)
       IN  inflight' = [inflight EXCEPT ![k].step = "totals",
                                        ![k].total = SumTotal(expenses, paid),
                                        ![k].last_date = MaxDate(expenses, paid)]
    /\ UNCHANGED <<expenses, suppliers, settings, now, response>>

(* update_totals line 170: UPDATE of total_spent and last_purchase_date with
   what the aggregate returned; the view responds *)
MarkPaidTotals(k) ==
    /\ k \in 1..Len(inflight)
    /\ inflight[k].op = "mark_paid"
    /\ inflight[k].step = "totals"
    /\ LET r == inflight[k]
       IN  /\ suppliers' = [suppliers EXCEPT ![r.supplier].total_spent = r.total,
                                             ![r.supplier].last_purchase_date = r.last_date]
           /\ response' = Respond("mark_paid", r.hub, r.pk, 200, TRUE)
    /\ inflight' = Without(inflight, k)
    /\ UNCHANGED <<expenses, settings, now>>

NextOverlap ==
    \/ \E d \in PlainSupplierPosts : Len(suppliers) < 1 /\ SupplierCreate(1, d)
    \/ \E f \in OverlapForms :
          /\ inflight = <<>>
          /\ Len(expenses) < OverlapMaxExpenses
          /\ ValidForm(f)
          /\ ExpenseCreate(1, f)
    \/ \E pk \in OverlapPks, u \in Users :
          Len(inflight) < OverlapMaxRequests /\ ApproveRead(1, pk, u)
    \/ \E pk \in OverlapPks : Len(inflight) < OverlapMaxRequests /\ MarkPaidRead(1, pk)
    \/ \E k \in 1..OverlapMaxRequests : ApproveSave(k)
    \/ \E k \in 1..OverlapMaxRequests : MarkPaidSave(k)
    \/ \E k \in 1..OverlapMaxRequests : MarkPaidAggregate(k)
    \/ \E k \in 1..OverlapMaxRequests : MarkPaidTotals(k)

SpecOverlap == Init /\ [][NextOverlap]_vars

(* C26: once an approve and a mark_paid that overlapped on one draft have
   both completed, the outcome is that of one of the two orders: no expense is
   left in status approved with paid_at set, and no supplier's total_spent
   counts an expense that is not paid. *)
C26_ApproveAndPaySerializable ==
    inflight = <<>> =>
        /\ \A i \in 1..Len(expenses) :
              ~(expenses[i].status = "approved" /\ expenses[i].paid_at # Null)
        /\ \A s \in 1..Len(suppliers) :
              suppliers[s].total_spent <= SpentUpTo(expenses, s, Len(expenses))

(* C27: once the mark_paid requests that overlapped on expenses of one
   supplier have all completed, the supplier's total_spent misses none of its
   non-deleted paid expenses. *)
C27_NoStaleTotal ==
    inflight = <<>> =>
        \A s \in 1..Len(suppliers) :
            suppliers[s].total_spent >= SpentUpTo(expenses, s, Len(expenses))

---------------------------------------------------------------------------
(* Tenants side by side: two tenants create, edit and delete expenses on one
   day, tenant 1 with the prefix EXP and possibly a backlog of numbers, tenant
   2 with the prefix EXP or GASTO. *)

TenantsMaxExpenses == 2
TenantsEdits == Forms({20000}, {2100}, {FirstDay}, {"draft"}, {Null})
TenantsPks == 1..TenantsMaxExpenses

NextTenants ==
    \/ \E h \in Hubs : Len(expenses) < TenantsMaxExpenses /\ ExpenseCreate(h, NumberForm)
    \/ \E h \in Hubs, pk \in TenantsPks, f \in TenantsEdits : ExpenseEdit(h, pk, f)
    \/ \E h \in Hubs, pk \in TenantsPks : ExpenseDelete(h, pk)
    \/ \E d \in NumberConfigs : SettingsSave(2, d)

SpecTenants == InitNumber /\ [][NextTenants]_vars

(* the number the next expense created for tenant hub would receive *)
NextNumberOf(rows, table, hub, today) ==
    GenerateExpenseNumber(rows, hub, NumberPrefix(table[hub]), today)

(* C29: creating, editing or deleting an expense of one tenant leaves the
   number that the next expense of every other tenant receives as it was, and
   a tenant's first expense for a day and prefix gets the suffix 0001 whatever
   numbers other tenants hold. *)
C29_NumberingPerTenant ==
    [][/\ (response'.op \in {"create", "edit", "delete"} /\ now' = now) =>
                \A b \in Hubs \ {response'.hub} :
                    NextNumberOf(expenses', settings', b, now')
                        = NextNumberOf(expenses, settings, b, now)
       /\ Len(expenses') = Len(expenses) + 1 =>
            LET i == Len(expenses')
            IN  EarlierOfKey(expenses', i) = {} =>
                    LastField(expenses'[i].expense_number) = Format04d(1)]_vars

(* tenant 2's first expense has just been numbered 0001 while tenant 1 holds
   a number of the same day and prefix *)
C29_Witness ==
    /\ response.op = "create"
    /\ response.hub = 2
    /\ LastField(expenses[response.pk].expense_number) = Format04d(1)
    /\ \E j \in 1..Len(expenses) :
          /\ expenses[j].hub_id = 1
          /\ KeyOf(expenses[j].expense_number) = KeyOf(expenses[response.pk].expense_number)

=============================================================================
